---- MODULE Spec2Model ----
(***************************************************************************)
(* rpv: a stdin -> stdout byte pump (src/main.rs).                         *)
(*                                                                         *)
(* The Copy Engine (rw_copy or splice_copy, chosen by do_not_use_splice)   *)
(* runs on the main thread and advances a shared AtomicU64; the Reporter   *)
(* thread loads that counter once per tick.  Every I/O call and every      *)
(* atomic access is one step of the model, so that all interleavings of    *)
(* the two threads are explored.  Input, Output and the kernel are the     *)
(* environment: a call may fail, or move any number of bytes its contract  *)
(* allows.                                                                 *)
(***************************************************************************)
EXTENDS Integers, Sequences, FiniteSets, TLC

\* ------------------------------------------------------------------ bounds
MaxLen == 3        \* longest input stream explored (N)
MaxByte == 1       \* bytes are drawn from 0..MaxByte
MaxChunk == 4      \* largest chunk_size explored (> MaxLen: a chunk larger than N)
MaxTicks == 3      \* Reporter ticks explored per run
MaxKb == 130       \* largest chunk_size_kb explored
UsizeBits == 16    \* width of usize, scaled down from 64 so that TLC can count

\* 2^n
RECURSIVE Pow2(_)
Pow2(n) == IF n = 0 THEN 1 ELSE 2 * Pow2(n - 1)

\* usize::MAX + 1
UsizeModulus == Pow2(UsizeBits)

\* The factor of `args.chunk_size_kb * 1024`.
KiB == 1024

Byte == 0..MaxByte

Min(a, b) == IF a < b THEN a ELSE b

\* All byte streams of length <= n.
Streams(n) == UNION {[1..k -> Byte] : k \in 0..n}

\* s is a prefix of t.
IsPrefix(s, t) == Len(s) <= Len(t) /\ SubSeq(t, 1, Len(s)) = s

VARIABLES
  do_not_use_splice, \* Options.do_not_use_splice: TRUE selects rw_copy
  chunk_size_kb,     \* Options.chunk_size_kb (0 until main has parsed it)
  chunk_size,        \* bytes per request, fixed for the run
  input,             \* the whole Input stream
  inpos,             \* bytes of Input consumed so far
  output,            \* bytes accepted by Output so far
  counter,           \* the shared AtomicU64
  pc,                \* Engine position: "read" "write" "splice" "add" "done"
  result,            \* "running", "ok" (Ok(())) or "err" (Err(e))
  buffer,            \* rw_copy: the reusable Vec<u8> of chunk_size bytes
  read,              \* rw_copy: bytes of the current chunk not yet written
  offset,            \* rw_copy: start of the unwritten part of the chunk
  written,           \* return value of the last write / splice
  last,              \* Reporter: last observed counter value
  secs,              \* Reporter: tick tally since last changed
  rendered,          \* Reporter: the line on screen, <<>> or <<bytes, secs>>
  ticks,             \* number of Reporter ticks taken
  lastCall,          \* history: the last I/O call the Engine issued
  chunkLen,          \* history: bytes returned by the last read
  chunkAccepted,     \* history: bytes of the current chunk accepted by Output
  sawShort,          \* history: some write/splice accepted less than requested
  failures,          \* history: number of I/O calls that returned Err
  lastTick,          \* history: the tick at which `last` was observed (0: start)
  renders,           \* history: number of lines the Reporter has printed
  prev               \* history: outcome of an earlier run on the same input

engineVars == <<do_not_use_splice, chunk_size_kb, chunk_size, input, inpos, output, counter,
                pc, result, buffer, read, offset, written>>
reporterVars == <<last, secs, rendered, ticks>>
historyVars == <<lastCall, chunkLen, chunkAccepted, sawShort, failures, prev>>
reporterHistory == <<lastTick, renders>>
vars == <<engineVars, reporterVars, historyVars, reporterHistory>>

NoCall == [op |-> "none", off |-> 0, req |-> 0, ret |-> 0]
Call(op, off, req, ret) == [op |-> op, off |-> off, req |-> req, ret |-> ret]
Failed == -1       \* the ret of a call that returned Err

\* ------------------------------------------------------------ environment
\* Read::read on a buffer of buflen bytes with avail bytes left in the stream:
\* 0 at end-of-stream or for an empty buffer, else a possibly short count.
ReadReturns(avail, buflen) ==
  IF avail = 0 \/ buflen = 0 THEN {0} ELSE 1..Min(avail, buflen)

\* Write::write of req bytes: any count up to the request.
WriteReturns(req) == 0..req

\* splice(2) of up to size bytes with avail bytes left in the pipe.
SpliceReturns(avail, size) ==
  IF avail = 0 \/ size = 0 THEN {0} ELSE 1..Min(avail, size)

\* ----------------------------------------------------------------- engine
\* vec![0u8; chunk_size]
NewBuffer(n) == [i \in 1..n |-> 0]

\* The entry point of the selected strategy.
Entry(noSplice) == IF noSplice THEN "read" ELSE "splice"

\* A store where the add should be.
FetchAddStore(c, n) == n

\* counter.fetch_add(written as u64, Relaxed)
FetchAdd(c, n) == c + n

\* Counting the whole chunk on every write.
RwAmountChunk == offset + read

\* rw_copy: the amount handed to fetch_add, `written as u64`.
RwAmount == written

\* No retry of a short write.
LoopHeadNoRetry(r) == "read"

\* `while read > 0`: write again, or go back to read the next chunk.
LoopHead(r) == IF r > 0 THEN "write" ELSE "read"

\* The end-of-stream test left out.
AfterReadNoBreak(n) == LoopHead(n)

\* `if read == 0 { break; }` then the inner loop.
AfterRead(n) == IF n = 0 THEN "done" ELSE LoopHead(n)

\* A short transfer taken for end-of-stream.
AfterSpliceShortIsEof(n) == IF n < chunk_size THEN "done" ELSE "add"

\* The end-of-stream test of splice_copy left out.
AfterSpliceNoBreak(n) == "add"

\* `if written == 0 { break; }` then the fetch_add.
AfterSplice(n) == IF n = 0 THEN "done" ELSE "add"

\* &buffer[..read]
WriteSliceFromStart(buf, off, r) == SubSeq(buf, 1, r)

\* &buffer[offset..offset + read]
WriteSlice(buf, off, r) == SubSeq(buf, off + 1, off + r)

\* The offset never advanced.
NextOffsetStuck(off, w) == off

\* offset += written
NextOffset(off, w) == off + w

\* The remaining count never decremented.
NextReadStuck(r, w) == r

\* read -= written
NextRead(r, w) == r - w

\* input.read(&mut buffer): the first n bytes of the buffer are overwritten.
Fill(buf, n) ==
  [i \in 1..Len(buf) |-> IF i <= n THEN input[inpos + i] ELSE buf[i]]

\* The state at the entry of rw_copy / splice_copy, called with any
\* chunk_size (main's conversion of chunk_size_kb is the action Main).
Init ==
  /\ do_not_use_splice \in BOOLEAN
  /\ chunk_size_kb = 0
  /\ chunk_size \in 0..MaxChunk
  /\ input \in Streams(MaxLen)
  /\ inpos = 0
  /\ output = <<>>
  /\ counter = 0
  /\ pc = Entry(do_not_use_splice)
  /\ result = "running"
  /\ buffer = NewBuffer(chunk_size)
  /\ read = 0
  /\ offset = 0
  /\ written = 0
  /\ last = 0
  /\ secs = 1
  /\ rendered = <<>>
  /\ ticks = 0
  /\ lastCall = NoCall
  /\ chunkLen = 0
  /\ chunkAccepted = 0
  /\ sawShort = FALSE
  /\ failures = 0
  /\ prev = <<>>
  /\ lastTick = 0
  /\ renders = 0

\* The error swallowed and the loop carried on.
AbortSwallowed(op, off, req) ==
  /\ result' = result
  /\ pc' = pc
  /\ lastCall' = Call(op, off, req, Failed)
  /\ failures' = failures + 1

\* The first failed call tried again, as for ErrorKind::Interrupted.
AbortRetryOnce(op, off, req) ==
  /\ result' = IF failures = 0 THEN result ELSE "err"
  /\ pc' = IF failures = 0 THEN pc ELSE "done"
  /\ lastCall' = Call(op, off, req, Failed)
  /\ failures' = failures + 1

\* `?` on an Err: the run returns the error.
Abort(op, off, req) ==
  /\ result' = "err"
  /\ pc' = "done"
  /\ lastCall' = Call(op, off, req, Failed)
  /\ failures' = failures + 1

\* rw_copy: let mut read = input.read(&mut buffer)?; ... let mut offset = 0;
RwRead ==
  /\ pc = "read"
  /\ \/ /\ Abort("read", 0, Len(buffer))
        /\ UNCHANGED <<inpos, buffer, read, offset, chunkLen, chunkAccepted>>
     \/ \E n \in ReadReturns(Len(input) - inpos, Len(buffer)) :
          /\ buffer' = Fill(buffer, n)
          /\ inpos' = inpos + n
          /\ read' = n
          /\ offset' = IF n = 0 THEN offset ELSE 0
          /\ pc' = AfterRead(n)
          /\ result' = IF pc' = "done" THEN "ok" ELSE "running"
          /\ lastCall' = Call("read", 0, Len(buffer), n)
          /\ chunkLen' = n
          /\ chunkAccepted' = 0
          /\ UNCHANGED failures
  /\ UNCHANGED <<do_not_use_splice, chunk_size_kb, chunk_size,
                 input, output, counter, written,
                 reporterVars, reporterHistory, sawShort, prev>>

\* rw_copy: let written = output.write(&buffer[offset..offset + read])?;
\*          offset += written; read -= written;
RwWrite ==
  /\ pc = "write"
  /\ \/ /\ Abort("write", offset, read)
        /\ UNCHANGED <<output, offset, read, written, chunkAccepted, sawShort>>
     \/ \E w \in WriteReturns(read) :
          /\ output' = output \o SubSeq(WriteSlice(buffer, offset, read), 1, w)
          /\ written' = w
          /\ offset' = NextOffset(offset, w)
          /\ read' = NextRead(read, w)
          /\ pc' = "add"
          /\ lastCall' = Call("write", offset, read, w)
          /\ chunkAccepted' = chunkAccepted + w
          /\ sawShort' = (sawShort \/ w < read)
          /\ UNCHANGED <<result, failures>>
  /\ UNCHANGED <<do_not_use_splice, chunk_size_kb, chunk_size,
                 input, inpos, counter, buffer,
                 reporterVars, reporterHistory, chunkLen, prev>>

\* rw_copy: counter.fetch_add(written as u64, Relaxed); then `while read > 0`.
RwCount ==
  /\ pc = "add"
  /\ do_not_use_splice
  /\ counter' = FetchAdd(counter, RwAmount)
  /\ pc' = LoopHead(read)
  /\ UNCHANGED <<do_not_use_splice, chunk_size_kb, chunk_size,
                 input, inpos, output, result,
                 buffer, read, offset, written, reporterVars, historyVars,
                 reporterHistory>>

\* splice_copy: let written = splice(fd_in, fd_out, chunk_size)?;
Splice ==
  /\ pc = "splice"
  /\ \/ /\ Abort("splice", 0, chunk_size)
        /\ UNCHANGED <<inpos, output, written, sawShort>>
     \/ \E n \in SpliceReturns(Len(input) - inpos, chunk_size) :
          /\ output' = output \o SubSeq(input, inpos + 1, inpos + n)
          /\ inpos' = inpos + n
          /\ written' = n
          /\ pc' = AfterSplice(n)
          /\ result' = IF pc' = "done" THEN "ok" ELSE "running"
          /\ lastCall' = Call("splice", 0, chunk_size, n)
          /\ sawShort' = (sawShort \/ n < Min(chunk_size, Len(input) - inpos))
          /\ UNCHANGED failures
  /\ UNCHANGED <<do_not_use_splice, chunk_size_kb, chunk_size,
                 input, counter, buffer, read,
                 offset, reporterVars, reporterHistory, chunkLen, chunkAccepted,
                 prev>>

\* splice_copy: counter.fetch_add(written as u64, Relaxed); then loop.
SpliceCount ==
  /\ pc = "add"
  /\ ~do_not_use_splice
  /\ counter' = FetchAdd(counter, written)
  /\ pc' = "splice"
  /\ UNCHANGED <<do_not_use_splice, chunk_size_kb, chunk_size,
                 input, inpos, output, result,
                 buffer, read, offset, written, reporterVars, historyVars,
                 reporterHistory>>

EngineNext == RwRead \/ RwWrite \/ RwCount \/ Splice \/ SpliceCount

\* --------------------------------------------------------------- reporter
\* A swap(0) where the load should be.
AfterSwap(c) == 0

\* counter.load(Relaxed): what the load leaves in the counter.
AfterLoad(c) == c

\* (count - last) as f64 / 1024.0 / 1024.0 / secs as f64, kept as the exact
\* pair <<bytes, seconds>> it is computed from.
Rate(count, l, s) == <<count - l, s>>

\* A line printed on every tick.
ChangedAlways(count, l) == TRUE

\* if count != last
Changed(count, l) == count # l

\* The new value added to the remembered one.
NewLastAccumulated(count, l) == l + count

\* last = count
NewLast(count, l) == count

\* Unchanged ticks not tallied.
NextSecsStuck(s) == s

\* secs += 1
NextSecs(s) == s + 1

\* One iteration of the Reporter's loop (one tick).
ReporterTick ==
  /\ ticks < MaxTicks
  /\ ticks' = ticks + 1
  /\ LET count == counter IN
       /\ counter' = AfterLoad(counter)
       /\ IF Changed(count, last)
            THEN /\ rendered' = Rate(count, last, secs)
                 /\ last' = NewLast(count, last)
                 /\ secs' = 1
                 /\ lastTick' = ticks'
                 /\ renders' = renders + 1
            ELSE /\ secs' = NextSecs(secs)
                 /\ UNCHANGED <<last, rendered, lastTick, renders>>
  /\ UNCHANGED <<do_not_use_splice, chunk_size_kb, chunk_size,
                 input, inpos, output, pc,
                 result, buffer, read, offset, written, historyVars>>

Next == EngineNext \/ ReporterTick

Spec == Init /\ [][Next]_vars

\* The Engine thread is scheduled for as long as it has a step to take.
FairSpec == Spec /\ WF_vars(EngineNext)

\* ------------------------------------------------- two runs on one input
\* main's set-up (a fresh counter, the same chunk_size, the strategy chosen
\* by the flag) for a second run over the same Input with the other
\* strategy, once the first run has returned Ok(()).
Rerun ==
  /\ result = "ok"
  /\ prev = <<>>
  /\ prev' = <<do_not_use_splice, output, counter>>
  /\ do_not_use_splice' = ~do_not_use_splice
  /\ inpos' = 0
  /\ output' = <<>>
  /\ counter' = 0
  /\ pc' = Entry(do_not_use_splice')
  /\ result' = "running"
  /\ buffer' = NewBuffer(chunk_size)
  /\ read' = 0
  /\ offset' = 0
  /\ written' = 0
  /\ lastCall' = NoCall
  /\ chunkLen' = 0
  /\ chunkAccepted' = 0
  /\ UNCHANGED <<chunk_size_kb, chunk_size, input, reporterVars,
                 reporterHistory, sawShort,
                 failures>>

NextEquiv == EngineNext \/ Rerun

SpecEquiv == Init /\ [][NextEquiv]_vars

\* -------------------------------------------------- main's conversion
\* usize multiplication without overflow checks (release profile): it wraps.
WrappingMul(a, b) == (a * b) % UsizeModulus

\* let chunk_size = args.chunk_size_kb * 1024;
ToBytes(kb) == WrappingMul(kb, KiB)

\* The process at its start: Options parsed (clap takes any usize for
\* chunk_size_kb; of these the positive ones are drawn), nothing computed yet.
InitMain ==
  /\ do_not_use_splice \in BOOLEAN
  /\ chunk_size_kb \in 1..MaxKb
  /\ chunk_size = 0
  /\ input \in Streams(1)
  /\ inpos = 0
  /\ output = <<>>
  /\ counter = 0
  /\ pc = "main"
  /\ result = "running"
  /\ buffer = <<>>
  /\ read = 0
  /\ offset = 0
  /\ written = 0
  /\ last = 0
  /\ secs = 1
  /\ rendered = <<>>
  /\ ticks = 0
  /\ lastCall = NoCall
  /\ chunkLen = 0
  /\ chunkAccepted = 0
  /\ sawShort = FALSE
  /\ failures = 0
  /\ prev = <<>>
  /\ lastTick = 0
  /\ renders = 0

\* main, up to the call of the selected strategy with chunk_size (pc = "call").
\* Where the product does not fit usize the build decides: it wraps without
\* overflow checks, and panics with them.
Main ==
  /\ pc = "main"
  /\ \/ /\ chunk_size' = ToBytes(chunk_size_kb)
        /\ pc' = "call"
        /\ UNCHANGED result
     \/ /\ chunk_size_kb * KiB >= UsizeModulus
        /\ pc' = "done"
        /\ result' = "panic"
        /\ UNCHANGED chunk_size
  /\ UNCHANGED <<do_not_use_splice, chunk_size_kb, input, inpos, output,
                 counter, buffer, read, offset, written, reporterVars,
                 historyVars, reporterHistory>>

SpecConv == InitMain /\ [][Main]_vars

\* ================================================================ claims
AtIoCall == pc \in {"read", "write", "splice"}

\* C1 (Completeness): a run of either strategy with chunk_size >= 1 that
\* returns Ok(()) has delivered to Output exactly the input bytes, in order,
\* and the counter equals the input length N.
Completeness ==
  (result = "ok" /\ chunk_size >= 1) =>
    (output = input /\ counter = Len(input))

\* An rw_copy run over N >= 2 bytes, with a chunk larger than N and a short
\* write on the way, has returned Ok(()).
CompletenessWitness ==
  /\ result = "ok"
  /\ do_not_use_splice
  /\ Len(input) >= 2
  /\ chunk_size > Len(input)
  /\ sawShort

\* C2 (no loss, duplication, reordering): in every reachable state the bytes
\* accepted so far by Output are a prefix of the Input bytes.
OutputIsPrefix == IsPrefix(output, input)

\* rw_copy sits between a partial write and its retry.
OutputIsPrefixWitness ==
  /\ pc = "write"
  /\ offset > 0
  /\ read > 0
  /\ Len(output) >= 2

\* C3 (partial-write handling): in rw_copy a read is issued only when every
\* byte of the current chunk has been accepted; a write always starts at the
\* first not-yet-accepted byte of the chunk and asks for all the rest of it;
\* and after a short write the next I/O call is such a write.
PartialWriteHandling ==
  /\ pc = "read" => chunkAccepted = chunkLen
  /\ pc = "write" =>
       /\ offset = chunkAccepted
       /\ read = chunkLen - chunkAccepted
       /\ read > 0
       /\ WriteSlice(buffer, offset, read) = SubSeq(input, inpos - read + 1, inpos)
  /\ (AtIoCall /\ lastCall.op = "write" /\ lastCall.ret # Failed
        /\ lastCall.ret < lastCall.req) =>
       /\ pc = "write"
       /\ offset = lastCall.off + lastCall.ret
       /\ read = lastCall.req - lastCall.ret

\* A write of a chunk's first byte only has been counted and the retry is next.
PartialWriteWitness ==
  /\ pc = "write"
  /\ lastCall.op = "write"
  /\ lastCall.ret = 1
  /\ lastCall.req >= 3
  /\ offset = 1

\* C4 (strategy equivalence): when two runs over the same input and the same
\* chunk_size >= 1, one per strategy, both return Ok(()), their Output
\* contents and final counter values are equal.
StrategyEquivalence ==
  (prev # <<>> /\ result = "ok" /\ chunk_size >= 1) =>
    (output = prev[2] /\ counter = prev[3])

\* Both runs have returned Ok(()) over at least 2 bytes, with a short
\* transfer in one of them.
StrategyEquivalenceWitness ==
  /\ prev # <<>>
  /\ result = "ok"
  /\ prev[1] # do_not_use_splice
  /\ Len(prev[2]) >= 2
  /\ sawShort

\* C5 (fatal propagation): a call fails exactly when the run returns Err; the
\* failing step leaves Output and the counter as they were, with the counter
\* equal to the bytes Output had accepted; and nothing changes afterwards.
FatalPropagation ==
  /\ [](lastCall.ret = Failed <=> result = "err")
  /\ [](result = "err" => (pc = "done" /\ counter = Len(output)))
  /\ [][(result = "running" /\ result' = "err") =>
          (output' = output /\ counter' = counter /\ counter = Len(output))]_vars
  /\ [][result = "err" => UNCHANGED <<output, counter, result>>]_vars

\* A write failed after at least 2 bytes had been accepted and counted.
FatalPropagationWitness ==
  /\ result = "err"
  /\ lastCall.op = "write"
  /\ counter >= 2

\* C6 (end-of-stream): a read / splice that returns 0 ends the run with
\* Ok(()), and the run returns Ok(()) in no other way; after that no further
\* call is issued and the counter is not updated.
EndOfStream ==
  /\ []((lastCall.op \in {"read", "splice"} /\ lastCall.ret = 0) <=> result = "ok")
  /\ [](result = "ok" => pc = "done")
  /\ [][result = "ok" =>
          UNCHANGED <<lastCall, counter, output, inpos, result, pc>>]_vars

\* A run has ended at end-of-stream after moving at least 2 bytes.
EndOfStreamWitness ==
  /\ result = "ok"
  /\ lastCall.ret = 0
  /\ counter >= 2

\* C7 (Reporter non-interference): a Reporter tick leaves the whole Engine
\* state, the counter included, and the record of the Engine's I/O calls as
\* they were; an Engine step leaves the Reporter's state alone; and a running
\* Engine always has a step it can take, whatever the Reporter has done.
NonInterference ==
  /\ [][ReporterTick => UNCHANGED <<engineVars, historyVars>>]_vars
  /\ [][EngineNext => UNCHANGED reporterVars]_vars
  /\ [](result = "running" => ENABLED EngineNext)

\* The Reporter has rendered a rate while the Engine is in the middle of a chunk.
NonInterferenceWitness ==
  /\ ticks >= 2
  /\ rendered # <<>>
  /\ pc = "write"
  /\ offset > 0

\* C8 (counter monotonicity): the counter starts at 0 and never decreases;
\* it changes only in the Engine's fetch_add, by the non-negative count the
\* last transfer returned.
CounterMonotonic ==
  /\ counter = 0
  /\ [][counter' >= counter]_vars
  /\ [][counter' # counter =>
          (pc = "add" /\ written >= 0 /\ counter' = counter + written)]_vars

\* The counter has been updated twice with a Reporter load in between.
CounterMonotonicWitness ==
  /\ counter >= 2
  /\ last >= 1
  /\ last < counter

\* C9 (termination): with chunk_size >= 1, a run eventually returns, for
\* every Output whose writes return between 0 and the requested length.
Termination == (chunk_size >= 1) => <>(result # "running")

\* C10 (counter never counts staged bytes): the counter never exceeds the
\* bytes accepted by Output, equals them whenever the Engine is about to
\* issue an I/O call, and every increment is the return value of the one
\* write / splice call before it.
CounterNeverStaged ==
  /\ [](counter <= Len(output))
  /\ [](AtIoCall => counter = Len(output))
  /\ [][counter' # counter =>
          (lastCall.op \in {"write", "splice"}
             /\ counter' - counter = lastCall.ret)]_vars

\* rw_copy holds bytes it has read but not written, after a short write of
\* a chunk of 3 bytes has been counted.
CounterNeverStagedWitness ==
  /\ pc = "write"
  /\ chunkLen = 3
  /\ counter = 1
  /\ inpos = 3

\* C11 (no retry after failure): at most one I/O call of a run ever fails;
\* once a call has failed the run has returned Err with that call as its
\* last one, and no further call is issued and the counter is not updated.
NoRetryAfterFailure ==
  /\ [](failures <= 1)
  /\ [](failures >= 1 =>
          (result = "err" /\ pc = "done" /\ lastCall.ret = Failed))
  /\ [][failures >= 1 =>
          UNCHANGED <<lastCall, counter, output, inpos, failures>>]_vars

\* A splice failed after at least 2 bytes had been moved and counted.
NoRetryAfterFailureWitness ==
  /\ failures = 1
  /\ lastCall.op = "splice"
  /\ counter >= 2

\* C12 (Reporter smoothing): the tally is always >= 1 and is the number of
\* ticks from the tick at which `last` was observed (the start, for the
\* first line) up to the next tick; a tick that prints a line prints
\* (count - last) over that tally, which is the number of ticks since `last`
\* was observed, then resets the tally to 1 and sets `last` to the value read.
ReporterSmoothing ==
  /\ [](secs >= 1 /\ secs = ticks + 1 - lastTick)
  /\ [][renders' # renders =>
          /\ rendered' = <<counter - last, secs>>
          /\ secs = ticks' - lastTick
          /\ secs' = 1
          /\ last' = counter]_vars

\* The third tick prints a second line, two ticks after the first one.
ReporterSmoothingWitness ==
  /\ ticks = 3
  /\ lastTick = 3
  /\ renders = 2
  /\ rendered = <<1, 2>>

\* C13 (render condition): a tick prints at most one line, and prints one
\* if and only if the value it loads differs from `last`; a tick that loads
\* an unchanged value adds 1 to the tally and leaves `last` and the line alone.
RenderCondition ==
  /\ [](renders <= ticks)
  /\ [][ticks' # ticks =>
          /\ renders' \in {renders, renders + 1}
          /\ (renders' # renders) <=> (counter # last)
          /\ (counter = last) =>
               (secs' = secs + 1 /\ UNCHANGED <<last, rendered>>)]_vars
  /\ [][ticks' = ticks => UNCHANGED <<renders, rendered, last, secs>>]_vars

\* A tick found the counter unchanged after a line had been printed.
RenderConditionWitness ==
  /\ renders = 1
  /\ ticks = 2
  /\ secs = 2
  /\ last > 0

\* C14 (Reporter never ahead): `last` never exceeds the counter, so
\* count - last does not underflow, and every rate printed is positive.
ReporterNeverAhead ==
  /\ last <= counter
  /\ last >= 0
  /\ rendered # <<>> => (rendered[1] > 0 /\ rendered[2] >= 1)

\* A line has been printed and the counter has moved on since.
ReporterNeverAheadWitness ==
  /\ renders >= 2
  /\ 0 < last
  /\ last < counter

\* C15 (request sizes and buffer bounds in rw_copy): the buffer has
\* chunk_size bytes and a read asks for no more; throughout the inner write
\* loop offset + read is the count the last read returned and is at most
\* chunk_size, so the slice buffer[offset..offset + read] is in bounds, and
\* every write asks for exactly the part of the chunk not yet accepted.
RequestBounds ==
  /\ Len(buffer) = chunk_size
  /\ lastCall.op = "read" => lastCall.req <= chunk_size
  /\ (do_not_use_splice /\ pc \in {"write", "add"}) =>
       /\ offset >= 0
       /\ read >= 0
       /\ offset + read = chunkLen
       /\ chunkLen <= chunk_size
       /\ offset + read <= Len(buffer)
  /\ lastCall.op = "write" =>
       /\ lastCall.off + lastCall.req = chunkLen
       /\ lastCall.req >= 1

\* The third write of a chunk of 3 bytes read into a buffer of 4.
RequestBoundsWitness ==
  /\ pc = "add"
  /\ chunk_size = 4
  /\ chunkLen = 3
  /\ lastCall.op = "write"
  /\ lastCall.off = 2
  /\ read = 0

\* C16 (zero chunk size does not loop): with chunk_size = 0 the first read /
\* splice is a zero-length request, it never moves a byte, and the run is
\* over once it has been made: with Ok(()) when it returned 0 (the only
\* other outcome is that the request itself failed), nothing written and
\* the counter still 0, whatever the input holds.
ZeroChunkReturns ==
  chunk_size = 0 =>
    /\ output = <<>>
    /\ counter = 0
    /\ inpos = 0
    /\ lastCall # NoCall =>
         /\ pc = "done"
         /\ lastCall.req = 0
         /\ lastCall.ret \in {0, Failed}
         /\ lastCall.ret = 0 => result = "ok"

\* splice_copy has returned Ok(()) with chunk_size = 0 on a non-empty input.
ZeroChunkReturnsWitness ==
  /\ chunk_size = 0
  /\ ~do_not_use_splice
  /\ result = "ok"
  /\ Len(input) >= 2

\* C17 (chunk-size conversion): for every positive chunk_size_kb the
\* chunk_size the strategy is called with is chunk_size_kb times 1024, and
\* so is positive.
ChunkSizeConversion ==
  pc = "call" => (chunk_size = chunk_size_kb * KiB /\ chunk_size > 0)

====
